---------------------------- MODULE Spec2Model ----------------------------
(***************************************************************************)
(* ESQUELAS-IA: a relay that sends an uploaded SUNARP form (image or PDF)  *)
(* to a vision model and normalizes the JSON the model answers with.       *)
(*                                                                         *)
(* Texts are TLA+ strings; TLC evaluates Len, \o, Head, Tail and SubSeq on *)
(* them character by character, so the normalizers below work on the       *)
(* characters of their input exactly as the Python code does.              *)
(***************************************************************************)
EXTENDS Integers, Sequences, FiniteSets, TLC

(***************************************************************************)
(* Python values.  Every value is a record whose field t is the Python     *)
(* type; the payload field is named after the type, so that values of      *)
(* different types are unequal.  A float is kept in hundredths              *)
(* (c = 100 * value): the only floats the program builds are rounded to    *)
(* two decimals.                                                           *)
(***************************************************************************)
None      == [t |-> "null"]
Str(s)    == [t |-> "str",   s |-> s]
Num(n)    == [t |-> "int",   n |-> n]
Float2(c) == [t |-> "float", c |-> c]
Bool(b)   == [t |-> "bool",  b |-> b]
Obj(f)    == [t |-> "obj",   f |-> f]
Arr(q)    == [t |-> "arr",   q |-> q]
Raise(e)  == [t |-> "raise", e |-> e]

EmptyDict == [k \in {} |-> None]

\* Python truthiness: `not x` is true of None, "", 0, 0.0, False, {} and [].
Truthy(x) ==
    CASE x.t = "null"  -> FALSE
      [] x.t = "str"   -> x.s # ""
      [] x.t = "int"   -> x.n # 0
      [] x.t = "float" -> x.c # 0
      [] x.t = "bool"  -> x.b
      [] x.t = "obj"   -> DOMAIN x.f # {}
      [] x.t = "arr"   -> Len(x.q) > 0
      [] OTHER         -> TRUE

(***************************************************************************)
(* str methods                                                             *)
(***************************************************************************)
Char(s, i) == SubSeq(s, i, i)

\* s[i-1:j] with Python's clamping of the slice bounds (i, j are 1-based).
Slice(s, i, j) ==
    LET lo == IF i < 1 THEN 1 ELSE i
        hi == IF j > Len(s) THEN Len(s) ELSE j
    IN  IF lo > hi THEN "" ELSE SubSeq(s, lo, hi)

StartsWithAt(s, i, p) ==
    /\ i + Len(p) - 1 <= Len(s)
    /\ Slice(s, i, i + Len(p) - 1) = p

startswith(s, p) == StartsWithAt(s, 1, p)

\* str.find / str.rfind, 1-based; 0 stands for Python's -1.
Least(S)    == IF S = {} THEN 0 ELSE CHOOSE i \in S : \A j \in S : i <= j
Greatest(S) == IF S = {} THEN 0 ELSE CHOOSE i \in S : \A j \in S : i >= j

find(s, p)  == Least({i \in 1..Len(s) : StartsWithAt(s, i, p)})
rfind(s, p) == Greatest({i \in 1..Len(s) : StartsWithAt(s, i, p)})

RECURSIVE count(_, _)
count(s, c) == IF s = "" THEN 0
               ELSE (IF Head(s) = c THEN 1 ELSE 0) + count(Tail(s), c)

\* str.replace: occurrences replaced left to right, never overlapping.
RECURSIVE replace(_, _, _)
replace(s, old, new) ==
    IF Len(s) < Len(old) THEN s
    ELSE IF startswith(s, old)
         THEN new \o replace(Slice(s, Len(old) + 1, Len(s)), old, new)
         ELSE Char(s, 1) \o replace(Tail(s), old, new)

Whitespace == {" ", "\t", "\n"}

RECURSIVE lstrip(_)
lstrip(s) == IF s # "" /\ Head(s) \in Whitespace THEN lstrip(Tail(s)) ELSE s

RECURSIVE rstrip(_)
rstrip(s) ==
    IF s # "" /\ Char(s, Len(s)) \in Whitespace
    THEN rstrip(Slice(s, 1, Len(s) - 1)) ELSE s

strip(s) == rstrip(lstrip(s))

LowerLetters == "abcdefghijklmnopqrstuvwxyzáéíóú"
UpperLetters == "ABCDEFGHIJKLMNOPQRSTUVWXYZÁÉÍÓÚ"

\* The case tables of str.upper and str.lower over the letters above.
ToUpper == [c \in {Char(LowerLetters, i) : i \in 1..Len(LowerLetters)} |->
               Char(UpperLetters, find(LowerLetters, c))]
ToLower == [c \in {Char(UpperLetters, i) : i \in 1..Len(UpperLetters)} |->
               Char(LowerLetters, find(UpperLetters, c))]

RECURSIVE MapStr(_, _)
MapStr(s, table) ==
    IF s = "" THEN ""
    ELSE (IF Head(s) \in DOMAIN table THEN table[Head(s)] ELSE Char(s, 1))
         \o MapStr(Tail(s), table)

upper(s) == MapStr(s, ToUpper)
lower(s) == MapStr(s, ToLower)

Digits == "0123456789"
DigitVal == [c \in {Char(Digits, i) : i \in 1..10} |-> find(Digits, c) - 1]
IsDigit(c) == c \in DOMAIN DigitVal
AllDigits(s) == \A i \in 1..Len(s) : IsDigit(Char(s, i))

\* int(s) for a text of decimal digits.
RECURSIVE int(_)
int(s) ==
    IF s = "" THEN 0
    ELSE 10 * int(Slice(s, 1, Len(s) - 1)) + DigitVal[Char(s, Len(s))]

\* str(n) for n >= 0.
RECURSIVE str(_)
str(n) == IF n < 10 THEN Char(Digits, n + 1)
          ELSE str(n \div 10) \o Char(Digits, (n % 10) + 1)

\* "%02d" % n.
Pad2(n) == IF n < 10 THEN "0" \o str(n) ELSE str(n)

(***************************************************************************)
(* float(text) and its formatting.  A parsed float is                      *)
(*   [kind |-> "err"]                    ValueError                        *)
(*   [kind |-> "nan"], [kind |-> "inf", neg]                               *)
(*   [kind |-> "num", neg, ip, fp]       the digits before and after "."   *)
(* The grammar is Python's without exponents and digit-group underscores,  *)
(* which no input of this model contains.                                  *)
(***************************************************************************)
float(text) ==
    LET s    == strip(text)
        sgn  == s # "" /\ Head(s) \in {"+", "-"}
        neg  == s # "" /\ Head(s) = "-"
        body == IF sgn THEN Tail(s) ELSE s
        dot  == find(body, ".")
        ip   == IF dot = 0 THEN body ELSE Slice(body, 1, dot - 1)
        fp   == IF dot = 0 THEN "" ELSE Slice(body, dot + 1, Len(body))
    IN  IF lower(body) = "nan" THEN [kind |-> "nan", neg |-> neg, ip |-> "", fp |-> ""]
        ELSE IF lower(body) \in {"inf", "infinity"}
             THEN [kind |-> "inf", neg |-> neg, ip |-> "", fp |-> ""]
        ELSE IF AllDigits(ip) /\ AllDigits(fp) /\ Len(ip) + Len(fp) >= 1
             THEN [kind |-> "num", neg |-> neg, ip |-> ip, fp |-> fp]
        ELSE [kind |-> "err", neg |-> FALSE, ip |-> "", fp |-> ""]

\* The value of a parsed number rounded to hundredths.  The third decimal
\* decides; an exact decimal tie (a lone trailing 5) is rounded by the binary
\* value in Python, and the inputs of this model hold no such tie.
Hundredths(p) ==
    LET f2 == Slice(p.fp \o "00", 1, 2)
        up == Len(p.fp) >= 3 /\ DigitVal[Char(p.fp, 3)] >= 5
    IN  100 * int(p.ip) + int(f2) + (IF up THEN 1 ELSE 0)

\* f"{x:.2f}"
FormatF2(p) ==
    CASE p.kind = "nan" -> "nan"
      [] p.kind = "inf" -> (IF p.neg THEN "-inf" ELSE "inf")
      [] OTHER ->
           LET c == Hundredths(p)
           IN  (IF p.neg THEN "-" ELSE "") \o str(c \div 100) \o "." \o Pad2(c % 100)

(***************************************************************************)
(* Amount normalization                                                    *)
(***************************************************************************)
\* The separator rule shared by norm_amount and _norm_amount.
SeparatorRule(raw) ==
    IF count(raw, ",") = 1 /\ count(raw, ".") >= 1 THEN raw
    ELSE IF count(raw, ",") = 1 /\ count(raw, ".") = 0
         THEN replace(replace(raw, ".", ""), ",", ".")
         ELSE replace(raw, ",", "")

FloatToText(raw) ==
    LET p == float(raw)
    IN  IF p.kind = "err" THEN None ELSE Str(FormatF2(p))

\* inscrito_controller.norm_amount
norm_amount(s) ==
    IF ~Truthy(s) THEN None
    ELSE LET raw == strip(replace(replace(replace(upper(strip(s.s)),
                        "S/.", ""), "S/", ""), "SOLES", ""))
         IN  FloatToText(SeparatorRule(raw))

\* observado_controller._norm_amount
_norm_amount(s) ==
    IF ~Truthy(s) THEN None
    ELSE LET raw == strip(replace(replace(replace(replace(upper(s.s),
                        "S/.", ""), "S/", ""), "SOLES", ""), " ", ""))
         IN  FloatToText(SeparatorRule(raw))

\* re.sub(r"[^0-9,\.]", "", s)
RECURSIVE KeepAmountChars(_)
KeepAmountChars(s) ==
    IF s = "" THEN ""
    ELSE (IF IsDigit(Head(s)) \/ Head(s) \in {",", "."} THEN Char(s, 1) ELSE "")
         \o KeepAmountChars(Tail(s))

\* re.findall(r"\d+", s): the maximal runs of digits, in order.
RECURSIVE DigitRuns(_, _)
DigitRuns(s, run) ==
    IF s = "" THEN (IF run = "" THEN <<>> ELSE <<run>>)
    ELSE IF IsDigit(Head(s)) THEN DigitRuns(Tail(s), run \o Char(s, 1))
    ELSE (IF run = "" THEN <<>> ELSE <<run>>) \o DigitRuns(Tail(s), "")

\* tachado_controller._to_float_2
_to_float_2(monto) ==
    IF ~Truthy(monto) THEN Float2(0)
    ELSE IF monto.t # "str" THEN Raise("AttributeError")
    ELSE LET s0 == strip(monto.s)
             s1 == replace(replace(replace(replace(s0,
                       "S/.", "S/"), "s/.", "s/"), "soles", ""), "SOLes", "")
             s2 == KeepAmountChars(s1)
             s3 == IF count(s2, ",") = 1 /\ count(s2, ".") = 0
                   THEN replace(s2, ",", ".") ELSE s2
             parts == DigitRuns(s3, "")
             s4 == IF count(s3, ".") > 1 /\ Len(parts) >= 2
                   THEN parts[1] \o "." \o parts[2] ELSE s3
             p  == float(s4)
         IN  IF p.kind = "num" THEN Float2(Hundredths(p)) ELSE Float2(0)

(***************************************************************************)
(* Date normalization                                                      *)
(***************************************************************************)
_MONTHS ==
    [m \in {"enero", "febrero", "marzo", "abril", "mayo", "junio", "julio",
            "agosto", "septiembre", "setiembre", "octubre", "noviembre",
            "diciembre"} |->
        CASE m = "enero" -> 1  [] m = "febrero" -> 2 [] m = "marzo" -> 3
          [] m = "abril" -> 4  [] m = "mayo" -> 5    [] m = "junio" -> 6
          [] m = "julio" -> 7  [] m = "agosto" -> 8  [] m = "septiembre" -> 9
          [] m = "setiembre" -> 9 [] m = "octubre" -> 10
          [] m = "noviembre" -> 11 [] m = "diciembre" -> 12]

IsLeap(y) == (y % 4 = 0 /\ y % 100 # 0) \/ y % 400 = 0

DaysInMonth(y, m) ==
    IF m = 2 THEN (IF IsLeap(y) THEN 29 ELSE 28)
    ELSE IF m \in {4, 6, 9, 11} THEN 30 ELSE 31

\* datetime(y, m, d) raises ValueError unless this holds.
ValidDate(y, m, d) ==
    /\ y >= 1 /\ y <= 9999
    /\ m >= 1 /\ m <= 12
    /\ d >= 1 /\ d <= DaysInMonth(y, m)

\* "%Y" of strftime: four digits, but the C library decides the padding of a
\* year below 1000 (glibc prints it bare; yearPad is that choice).
Year4(y, yearPad) ==
    IF y >= 1000 \/ ~yearPad THEN str(y)
    ELSE Slice("000", 1, 4 - Len(str(y))) \o str(y)

\* datetime(y, m, d).strftime("%d/%m/%Y")
strftime(y, m, d, yearPad) == Pad2(d) \o "/" \o Pad2(m) \o "/" \o Year4(y, yearPad)

\* The character classes \s, \d and [A-Za-z...] of the patterns.
InClass(c, class) ==
    CASE class = "space" -> c \in Whitespace
      [] class = "digit" -> c \in DOMAIN DigitVal
      [] OTHER -> c \in DOMAIN ToUpper \/ c \in DOMAIN ToLower

\* The end of the longest run of characters of the class starting at i
\* (i - 1 when s[i] is not in the class).
RECURSIVE RunEnd(_, _, _)
RunEnd(s, i, class) ==
    IF i <= Len(s) /\ InClass(Char(s, i), class) THEN RunEnd(s, i + 1, class)
    ELSE i - 1

\* r'(\d{1,2})\s+de\s+([A-Za-z...]+)\s+de\s+(\d{4})' with re.IGNORECASE,
\* tried at position i with a day of ld digits.  The greedy runs are maximal:
\* what follows each run cannot start with a character of the run's class.
\* The ends of the runs are found left to right: the blanks after the day
\* (w1End), after the first "de" (w2End), the month name (nEnd), the blanks
\* after it (w3End) and after the second "de" (w4End).
NoLongForm == [ok |-> FALSE, d |-> "", month_name |-> "", y |-> ""]

LongFormGroups(s, i, dEnd, w1End, w2End, nEnd, w3End, w4End) ==
    IF /\ dEnd <= Len(s) /\ AllDigits(Slice(s, i, dEnd))
       /\ w1End > dEnd
       /\ lower(Slice(s, w1End + 1, w1End + 2)) = "de"
       /\ w2End > w1End + 2
       /\ nEnd > w2End
       /\ w3End > nEnd
       /\ lower(Slice(s, w3End + 1, w3End + 2)) = "de"
       /\ w4End > w3End + 2
       /\ w4End + 4 <= Len(s) /\ AllDigits(Slice(s, w4End + 1, w4End + 4))
    THEN [ok |-> TRUE,
          d |-> Slice(s, i, dEnd),
          month_name |-> Slice(s, w2End + 1, nEnd),
          y |-> Slice(s, w4End + 1, w4End + 4)]
    ELSE NoLongForm

LongFormYearGap(s, i, dEnd, w1End, w2End, nEnd, w3End) ==
    LongFormGroups(s, i, dEnd, w1End, w2End, nEnd, w3End,
                   RunEnd(s, w3End + 3, "space"))

LongFormNameGap(s, i, dEnd, w1End, w2End, nEnd) ==
    LongFormYearGap(s, i, dEnd, w1End, w2End, nEnd, RunEnd(s, nEnd + 1, "space"))

LongFormName(s, i, dEnd, w1End, w2End) ==
    LongFormNameGap(s, i, dEnd, w1End, w2End, RunEnd(s, w2End + 1, "letter"))

LongFormDeGap(s, i, dEnd, w1End) ==
    LongFormName(s, i, dEnd, w1End, RunEnd(s, w1End + 3, "space"))

LongFormAt(s, i, ld) ==
    LongFormDeGap(s, i, i + ld - 1, RunEnd(s, i + ld, "space"))

\* The first of the attempts that matched.
FirstMatch(first, second, rest) ==
    IF first.ok THEN first ELSE IF second.ok THEN second ELSE rest

\* re.search from position i on: the leftmost position that matches, the day
\* taken greedily.
RECURSIVE LongFormFrom(_, _)
LongFormFrom(s, i) ==
    IF i > Len(s) THEN NoLongForm
    ELSE FirstMatch(LongFormAt(s, i, 2), LongFormAt(s, i, 1), LongFormFrom(s, i + 1))

LongFormSearch(s) == LongFormFrom(s, 1)

DateSeparators == {"/", "-", ".", " "}

NoDateRx == [ok |-> FALSE, d |-> "", mn |-> "", y |-> ""]

\* _DATE_RX = r'(\d{1,2})[\/\-. ](\d{1,2})[\/\-. ](\d{2,4})' tried at
\* position i with groups of ld, lm and ly digits.
DateRxAt(s, i, ld, lm, ly) ==
    IF /\ i + ld + lm + ly + 1 <= Len(s)
       /\ AllDigits(Slice(s, i, i + ld - 1))
       /\ Char(s, i + ld) \in DateSeparators
       /\ AllDigits(Slice(s, i + ld + 1, i + ld + lm))
       /\ Char(s, i + ld + lm + 1) \in DateSeparators
       /\ AllDigits(Slice(s, i + ld + lm + 2, i + ld + lm + ly + 1))
    THEN [ok |-> TRUE,
          d  |-> Slice(s, i, i + ld - 1),
          mn |-> Slice(s, i + ld + 1, i + ld + lm),
          y  |-> Slice(s, i + ld + lm + 2, i + ld + lm + ly + 1)]
    ELSE NoDateRx

\* The group lengths in the order the backtracking matcher tries them: each
\* group as long as possible, the earlier group first.
DateRxOrder ==
    << <<2, 2, 4>>, <<2, 2, 3>>, <<2, 2, 2>>, <<2, 1, 4>>, <<2, 1, 3>>, <<2, 1, 2>>,
       <<1, 2, 4>>, <<1, 2, 3>>, <<1, 2, 2>>, <<1, 1, 4>>, <<1, 1, 3>>, <<1, 1, 2>> >>

\* The first lengths, from the k-th of the order on, that match at position i.
RECURSIVE DateRxTry(_, _, _)
DateRxTry(s, i, k) ==
    IF k > Len(DateRxOrder) THEN NoDateRx
    ELSE FirstMatch(DateRxAt(s, i, DateRxOrder[k][1], DateRxOrder[k][2],
                             DateRxOrder[k][3]),
                    NoDateRx, DateRxTry(s, i, k + 1))

\* _DATE_RX.search(s) from position i on: the leftmost position that matches.
RECURSIVE DateRxFrom(_, _)
DateRxFrom(s, i) ==
    IF i > Len(s) THEN NoDateRx
    ELSE FirstMatch(DateRxTry(s, i, 1), NoDateRx, DateRxFrom(s, i + 1))

DateRxSearch(s) == DateRxFrom(s, 1)

\* A two-digit year: below 50 is 20yy, otherwise 19yy.
ExpandYear(y) ==
    IF Len(y) = 2 THEN (IF int(y) < 50 THEN "20" \o y ELSE "19" \o y) ELSE y

\* The numeric branch of norm_date_ddmmyyyy, m being _DATE_RX.search(s).
NumericDate(m, yearPad) ==
    IF m.ok /\ ValidDate(int(ExpandYear(m.y)), int(m.mn), int(m.d))
    THEN Str(strftime(int(ExpandYear(m.y)), int(m.mn), int(m.d), yearPad))
    ELSE None

\* The long-form branch, mtxt being the long-form search of s and name the
\* lower-cased month name; the numeric branch follows when it gives no date.
LongDate(s, mtxt, name, yearPad) ==
    IF /\ mtxt.ok
       /\ name \in DOMAIN _MONTHS
       /\ ValidDate(int(mtxt.y), _MONTHS[name], int(mtxt.d))
    THEN Str(strftime(int(mtxt.y), _MONTHS[name], int(mtxt.d), yearPad))
    ELSE NumericDate(DateRxSearch(s), yearPad)

LongDateOf(s, mtxt, yearPad) == LongDate(s, mtxt, lower(mtxt.month_name), yearPad)

\* inscrito_controller.norm_date_ddmmyyyy
norm_date_ddmmyyyy(s, yearPad) ==
    IF ~Truthy(s) THEN None
    ELSE LongDateOf(s.s, LongFormSearch(s.s), yearPad)

\* observado_controller._norm_date_ddmmyyyy: the same code.
_norm_date_ddmmyyyy(s, yearPad) == norm_date_ddmmyyyy(s, yearPad)

(***************************************************************************)
(* json.loads.  The grammar is JSON's with strings free of escapes and     *)
(* numbers that are non-negative integers: the texts of this model hold no *)
(* backslash, sign, fraction or exponent.                                  *)
(***************************************************************************)
\* s[i-1], or "" past either end.
At(s, i) == Slice(s, i, i)

\* The position after the whitespace that starts at i.
SkipWs(s, i) == RunEnd(s, i, "space") + 1

ParseFail == [ok |-> FALSE, val |-> None, next |-> 0]
Parsed(v, next) == [ok |-> TRUE, val |-> v, next |-> next]

\* py_scanstring from the opening quote at i: the text up to the next quote
\* (close is that quote's offset after the opening one, 0 when there is
\* none); a control character inside it is an error.
StringUpTo(s, i, close) ==
    IF close = 0
       \/ \E k \in i + 1..i + close - 1 : Char(s, k) \in {"\t", "\n", "\\"}
    THEN ParseFail
    ELSE Parsed(Str(Slice(s, i + 1, i + close - 1)), i + close + 1)

\* The offset from i of the first quote after position i, 0 when there is
\* none (the text is searched sixteen characters at a time).
RECURSIVE QuoteAfter(_, _, _)
QuoteAfter(s, i, from) ==
    IF from > Len(s) THEN 0
    ELSE IF find(Slice(s, from, from + 15), "\"") # 0
         THEN from - i + find(Slice(s, from, from + 15), "\"") - 1
    ELSE QuoteAfter(s, i, from + 16)

ScanString(s, i) == StringUpTo(s, i, QuoteAfter(s, i, i + 1))

\* NUMBER_RE at i: "0", or a digit run that does not start with 0.
NumberUpTo(s, i, last) == Parsed(Num(int(Slice(s, i, last))), last + 1)

ScanNumber(s, i) ==
    NumberUpTo(s, i, IF At(s, i) = "0" THEN i ELSE RunEnd(s, i, "digit"))

RECURSIVE ScanOnce(_, _)
RECURSIVE JSONObject(_, _, _)
RECURSIVE JSONArray(_, _, _)
RECURSIVE ObjectMember(_, _, _)
RECURSIVE ObjectValue(_, _, _, _)
RECURSIVE ObjectRest(_, _, _)
RECURSIVE ArrayRest(_, _, _)

\* The "{" or "[" at i has been read and j is the position after the
\* whitespace that follows it.
ObjectOpen(s, j) ==
    IF At(s, j) = "}" THEN Parsed(Obj(EmptyDict), j + 1)
    ELSE IF At(s, j) = "\"" THEN JSONObject(s, j, EmptyDict)
    ELSE ParseFail

ArrayOpen(s, j) ==
    IF At(s, j) = "]" THEN Parsed(Arr(<<>>), j + 1) ELSE JSONArray(s, j, <<>>)

\* scan_once(s, i): the value that starts at position i, c being s[i].
ScanAt(s, i, c) ==
    CASE c = "\"" -> ScanString(s, i)
      [] c = "{"  -> ObjectOpen(s, SkipWs(s, i + 1))
      [] c = "["  -> ArrayOpen(s, SkipWs(s, i + 1))
      [] c = "n" /\ StartsWithAt(s, i, "null")  -> Parsed(None, i + 4)
      [] c = "t" /\ StartsWithAt(s, i, "true")  -> Parsed(Bool(TRUE), i + 4)
      [] c = "f" /\ StartsWithAt(s, i, "false") -> Parsed(Bool(FALSE), i + 5)
      [] c # "" /\ IsDigit(c) -> ScanNumber(s, i)
      [] OTHER -> ParseFail

ScanOnce(s, i) == ScanAt(s, i, At(s, i))

\* JSONObject from the quote (at i) that opens the next key; pairs holds the
\* members read so far, a repeated key keeping its last value.
JSONObject(s, i, pairs) == ObjectMember(s, pairs, ScanString(s, i))

\* The key has been read: a colon and the value follow.
ObjectMember(s, pairs, key) ==
    IF ~key.ok \/ At(s, SkipWs(s, key.next)) # ":" THEN ParseFail
    ELSE ObjectValue(s, pairs, key.val.s,
                     ScanOnce(s, SkipWs(s, SkipWs(s, key.next) + 1)))

\* The value has been read: "}" or "," and the next key follow.
ObjectValue(s, pairs, k, value) ==
    IF ~value.ok THEN ParseFail
    ELSE ObjectRest(s, (k :> value.val) @@ pairs, SkipWs(s, value.next))

ObjectRest(s, pairs, after) ==
    IF At(s, after) = "}" THEN Parsed(Obj(pairs), after + 1)
    ELSE IF At(s, after) = "," /\ At(s, SkipWs(s, after + 1)) = "\""
         THEN JSONObject(s, SkipWs(s, after + 1), pairs)
    ELSE ParseFail

\* JSONArray from the start (at i) of the next element.
JSONArray(s, i, items) == ArrayRest(s, items, ScanOnce(s, i))

\* The element has been read: "]" or "," follows.
ArrayRest(s, items, value) ==
    IF ~value.ok THEN ParseFail
    ELSE IF At(s, SkipWs(s, value.next)) = "]"
         THEN Parsed(Arr(Append(items, value.val)), SkipWs(s, value.next) + 1)
    ELSE IF At(s, SkipWs(s, value.next)) = ","
         THEN JSONArray(s, SkipWs(s, SkipWs(s, value.next) + 1),
                        Append(items, value.val))
    ELSE ParseFail

\* json.loads(text): the value, or JSONDecodeError (also when anything but
\* whitespace follows the value); TypeError for a text that is None.
WholeValue(s, r) ==
    IF r.ok /\ SkipWs(s, r.next) = Len(s) + 1 THEN r.val
    ELSE Raise("JSONDecodeError")

json_loads(text) ==
    IF text.t # "str" THEN Raise("TypeError")
    ELSE WholeValue(text.s, ScanOnce(text.s, SkipWs(text.s, 1)))

\* The except branch of _repair_json_block: direct is what json.loads(txt)
\* gave, start and end the positions of the braces (0 when there is none).
RepairBlock(txt, direct, start, end) ==
    IF direct # Raise("JSONDecodeError") THEN direct
    ELSE IF start # 0 /\ end # 0
         THEN json_loads(Str(Slice(txt.s, start, end)))
         ELSE direct

\* _repair_json_block cutting at the first "}" instead of the last.
_repair_json_block_first_close(txt) ==
    RepairBlock(txt, json_loads(txt), find(txt.s, "{"), find(txt.s, "}"))

\* inscrito_controller._repair_json_block (observado_controller's is the same)
_repair_json_block(txt) ==
    RepairBlock(txt, json_loads(txt), find(txt.s, "{"), rfind(txt.s, "}"))

(***************************************************************************)
(* The text the vision model writes for a JSON value (compact, no escapes) *)
(***************************************************************************)
RECURSIVE dumps(_)
RECURSIVE dumps_members(_, _)
RECURSIVE dumps_items(_)

dumps(x) ==
    CASE x.t = "null" -> "null"
      [] x.t = "str"  -> "\"" \o x.s \o "\""
      [] x.t = "int"  -> str(x.n)
      [] x.t = "bool" -> (IF x.b THEN "true" ELSE "false")
      [] x.t = "obj"  -> "{" \o dumps_members(x.f, DOMAIN x.f) \o "}"
      [] x.t = "arr"  -> "[" \o dumps_items(x.q) \o "]"

dumps_members(f, keys) ==
    IF keys = {} THEN ""
    ELSE LET k == CHOOSE key \in keys : TRUE
         IN  "\"" \o k \o "\":" \o dumps(f[k])
             \o (IF keys = {k} THEN "" ELSE "," \o dumps_members(f, keys \ {k}))

dumps_items(q) ==
    IF q = <<>> THEN ""
    ELSE dumps(Head(q)) \o (IF Len(q) = 1 THEN "" ELSE "," \o dumps_items(Tail(q)))

(***************************************************************************)
(* media_utils                                                             *)
(***************************************************************************)
Min(a, b) == IF a <= b THEN a ELSE b

\* bytes_to_data_url(raw, mime): the data URL, kept as what it encodes and
\* the media type it declares.
bytes_to_data_url(raw, mime) == [mime |-> mime, raw |-> raw]

\* pdf_to_data_urls that renders every page of the document.
pdf_to_data_urls_whole_document(doc, max_pages) ==
    [i \in 1..doc |-> bytes_to_data_url("page " \o str(i - 1), "image/png")]

\* pdf_to_data_urls for a document the renderer opens with doc pages: pages
\* 0 .. page_count - 1, in that order.
pdf_to_data_urls(doc, max_pages) ==
    [i \in 1..Min(doc, max_pages) |->
        bytes_to_data_url("page " \o str(i - 1), "image/png")]

build_message_content(system_prompt, images) ==
    <<[type |-> "text", text |-> system_prompt]>>
    \o [i \in 1..Len(images) |->
           [type |-> "image_url", image_url |-> [url |-> images[i]]]]

(***************************************************************************)
(* The controllers: content type, validation, defaults                     *)
(***************************************************************************)
Pipelines == {"anotacion", "liquidado", "observado", "tachado"}

\* The route group of extract_routes.py (prefix /api/extract): the path of
\* each POST endpoint and the pipeline its handler calls.
router ==
    [path \in {"/api/extract/liquidado", "/api/extract/inscrito",
               "/api/extract/observado"} |->
        CASE path = "/api/extract/liquidado" -> "liquidado"
          [] path = "/api/extract/inscrito"  -> "anotacion"
          [] OTHER                           -> "observado"]

\* The pipelines extract_routes.py registers a route for.
Routed == {router[path] : path \in DOMAIN router}

\* The prompts, by name (their wording takes no part in the control flow).
SYSTEM_PROMPT ==
    [p \in Pipelines |->
        CASE p = "anotacion" -> "SYSTEM_PROMPT_ANOTACION"
          [] p = "observado" -> "SYSTEM_PROMPT_OBSERVADO"
          [] OTHER           -> "SYSTEM_PROMPT"]

\* The documentType each controller defaults to.
DocumentType ==
    [p \in Pipelines |->
        CASE p = "anotacion" -> "anotacion_inscripcion"
          [] p = "liquidado" -> "esquela_liquidacion"
          [] p = "observado" -> "esquela_observacion"
          [] OTHER           -> "tacha"]

AnotacionFields ==
    {"anioTitulo", "numeroTitulo", "oficinaRegistral", "seccionRegistral",
     "numeroPartida", "fechaPresentacion", "montoInscripcion",
     "montoDevolucion", "fechaInscripcion", "nombreRegistrador"}

LiquidadoFields ==
    {"anioTitulo", "numeroTitulo", "oficinaRegistral", "seccionRegistral",
     "fechaPresentacion", "horaPresentacion", "fechaVencimiento",
     "fechaLiquidacion", "ultimoDiaPago", "derechosRegistrales", "pagoCuenta",
     "diferenciaPorPagar", "nombreRegistrador"}

ObservadoFields == {"fechaObservacion", "fechaVencimiento", "montoLiquidado"}

TachadoFields == {"numeroTitulo", "derechosPorDevolver"}

Fields ==
    [p \in Pipelines |->
        CASE p = "anotacion" -> AnotacionFields
          [] p = "liquidado" -> LiquidadoFields
          [] p = "observado" -> ObservadoFields
          [] OTHER           -> TachadoFields]

\* The classification every controller starts with.
is_pdf(content_type) == lower(content_type.s) = "application/pdf"
is_img_or_text(content_type) ==
    \/ startswith(lower(content_type.s), "image/")
    \/ startswith(lower(content_type.s), "text/")
is_img(content_type) == startswith(lower(content_type.s), "image/")

\* type(x).__name__
type_name(x) ==
    CASE x.t = "null"  -> "NoneType"
      [] x.t = "str"   -> "str"
      [] x.t = "int"   -> "int"
      [] x.t = "float" -> "float"
      [] x.t = "bool"  -> "bool"
      [] x.t = "obj"   -> "dict"
      [] OTHER         -> "list"

\* What the try block of a controller comes to: the body of the 200
\* response, or the exception (class and str(e)) its handler catches.
Success(body)     == [failed |-> FALSE, cls |-> "", msg |-> "", body |-> body]
Failure(cls, msg) == [failed |-> TRUE, cls |-> cls, msg |-> msg, body |-> None]

\* str(e) of the exceptions the libraries raise.  An AttributeError names the
\* type and the attribute; the text of a JSONDecodeError (which varies with
\* the position of the error) and of a pydantic ValidationError (one line per
\* field) is kept as its first words: the handlers only cut it.
AttributeError(x, attr) ==
    Failure("AttributeError",
            "'" \o type_name(x) \o "' object has no attribute '" \o attr \o "'")
NotAMapping(cls, x) ==
    Failure("TypeError",
            cls \o "() argument after ** must be a mapping, not " \o type_name(x))
ValidationError(cls) == Failure("ValidationError", "validation error for " \o cls)
JSONFailure(raise) ==
    IF raise.e = "TypeError"
    THEN Failure("TypeError",
                 "the JSON object must be str, bytes or bytearray, not NoneType")
    ELSE Failure("JSONDecodeError", "Expecting value")

\* pydantic: the data model of a document type built from the value of
\* "data".  A field is Optional[str]; a field that is absent is None; a key
\* that is no field is ignored.
BaseModelData(cls, fields, data) ==
    IF data.t # "obj" THEN ValidationError(cls)
    ELSE IF \E k \in DOMAIN data.f \cap fields : data.f[k].t \notin {"str", "null"}
         THEN ValidationError(cls)
    ELSE Success([k \in fields |->
                     IF k \in DOMAIN data.f THEN data.f[k] ELSE None])

\* pydantic: XxxOut(**raw_data).  documentType is a str with a default, data
\* the data model with a default factory; other keys are ignored.
BaseModelOut(cls, document_type, fields, raw_data) ==
    IF raw_data.t = "raise" THEN JSONFailure(raw_data)
    ELSE IF raw_data.t # "obj" THEN NotAMapping(cls, raw_data)
    ELSE IF /\ "documentType" \in DOMAIN raw_data.f
            /\ raw_data.f["documentType"].t # "str"
         THEN ValidationError(cls)
    ELSE IF /\ "data" \in DOMAIN raw_data.f
            /\ BaseModelData(cls, fields, raw_data.f["data"]).failed
         THEN ValidationError(cls)
    ELSE Success([documentType |->
                      IF "documentType" \in DOMAIN raw_data.f
                      THEN raw_data.f["documentType"] ELSE Str(document_type),
                  data |->
                      IF "data" \in DOMAIN raw_data.f
                      THEN BaseModelData(cls, fields, raw_data.f["data"]).body
                      ELSE [k \in fields |-> None]])

AnotacionOut(raw_data) ==
    BaseModelOut("app.controllers.inscrito_controller.AnotacionOut",
                 "anotacion_inscripcion", AnotacionFields, raw_data)

ObservadoOut(raw_data) ==
    BaseModelOut("app.controllers.observado_controller.ObservadoOut",
                 "esquela_observacion", ObservadoFields, raw_data)

\* validated.model_dump()
model_dump(documentType, data) ==
    Obj([documentType |-> documentType, data |-> Obj(data)])

\* The normalizations of extract_anotacion and its response body.
anotacion_normalized(validated, yearPad) ==
    IF validated.failed THEN validated
    ELSE Success(model_dump(validated.body.documentType,
        [validated.body.data EXCEPT
            !["montoInscripcion"]  = norm_amount(@),
            !["montoDevolucion"]   = norm_amount(@),
            !["fechaPresentacion"] = norm_date_ddmmyyyy(@, yearPad),
            !["fechaInscripcion"]  = norm_date_ddmmyyyy(@, yearPad)]))

\* The normalizations of extract_observado and its response body.
observado_normalized(validated, yearPad) ==
    IF validated.failed THEN validated
    ELSE Success(model_dump(validated.body.documentType,
        [validated.body.data EXCEPT
            !["fechaObservacion"] = _norm_date_ddmmyyyy(@, yearPad),
            !["fechaVencimiento"] = _norm_date_ddmmyyyy(@, yearPad),
            !["montoLiquidado"]   = _norm_amount(@)]))

\* chat.choices[0].message.content or "{}"
content_or_braces(text) == IF Truthy(text) THEN text ELSE Str("{}")

\* dict.setdefault and dict.get
setdefault(d, k, v) == IF k \in DOMAIN d THEN d ELSE (k :> v) @@ d
get(d, k) == IF k \in DOMAIN d THEN d[k] ELSE None

\* data.setdefault("documentType", ...); data.setdefault("data", {})
with_defaults(data, document_type) ==
    setdefault(setdefault(data.f, "documentType", Str(document_type)),
               "data", Obj(EmptyDict))

\* The "saneos" of extract_liquidado on top, the parsed object with its two
\* defaults: every listed key of data that is absent becomes None, and all
\* else is returned as the model wrote it.
liquidado_defaults(top) ==
    IF top["data"].t # "obj" THEN AttributeError(top["data"], "setdefault")
    ELSE Success(Obj([top EXCEPT !["data"] =
            Obj([k \in DOMAIN @.f \cup LiquidadoFields |->
                    IF k \in DOMAIN @.f THEN @.f[k] ELSE None])]))

liquidado_sanitized(data) ==
    IF data.t = "raise" THEN JSONFailure(data)
    ELSE IF data.t # "obj" THEN AttributeError(data, "setdefault")
    ELSE liquidado_defaults(with_defaults(data, "esquela_liquidacion"))

\* The body extract_tachado builds from numero and devolver_raw.
tachado_body(numero, devolver_raw, devolver_num) ==
    IF devolver_num.t = "raise" THEN AttributeError(devolver_raw, "strip")
    ELSE Success(Obj([documentType |-> Str("tacha"),
                      data |-> Obj([numeroTitulo |->
                                        IF Truthy(numero) THEN numero ELSE None,
                                    derechosPorDevolver |-> devolver_num])]))

tachado_fields(d) ==
    IF d.t # "obj" THEN AttributeError(d, "get")
    ELSE tachado_body(get(d.f, "numeroTitulo"), get(d.f, "derechosPorDevolver"),
                      _to_float_2(get(d.f, "derechosPorDevolver")))

tachado_normalized(data) ==
    IF data.t = "raise" THEN JSONFailure(data)
    ELSE IF data.t # "obj" THEN AttributeError(data, "setdefault")
    ELSE tachado_fields(with_defaults(data, "tacha")["data"])

(***************************************************************************)
(* The responses                                                           *)
(***************************************************************************)
NoResponse == [status |-> 0, body |-> None, detail |-> ""]
JSONResponse(body) == [status |-> 200, body |-> body, detail |-> ""]
HTTPException(status_code, detail) ==
    [status |-> status_code, body |-> None, detail |-> detail]

\* The slice bound of str(e)[:500].
TruncLen == 500

\* The handlers of the try blocks.
Labels ==
    [p \in {"anotacion", "observado"} |->
        IF p = "anotacion" THEN "Extractor anotación falló: "
        ELSE "Extractor observado falló: "]

labelled_handler(p, result) ==
    IF result.failed
    THEN HTTPException(500, Labels[p] \o result.cls \o ": "
                            \o Slice(result.msg, 1, TruncLen))
    ELSE JSONResponse(result.body)

bare_handler(result) ==
    IF result.failed THEN HTTPException(500, result.msg)
    ELSE JSONResponse(result.body)

\* The Query declaration of max_pages in the three routes.
max_pages_default == 3
max_pages_ge == 1
\* A declaration that admits one page more.
max_pages_le_eleven == 10 + 1
max_pages_le == 10

\* FastAPI's answer to a max_pages outside the declared range (422).
RequestValidationError(max_pages) ==
    HTTPException(422,
        IF max_pages < max_pages_ge
        THEN "Input should be greater than or equal to " \o str(max_pages_ge)
        ELSE "Input should be less than or equal to " \o str(max_pages_le))

\* settings.py builds the client as OpenAI(api_key=...): max_retries is
\* left at the library's default, so create() sends a request that failed
\* with a connection error, a timeout or a 408, 409, 429 or 5xx status again,
\* up to this many times, before it raises.
max_retries == 2

\* Starlette's answer to an exception no handler caught.
InternalServerError == HTTPException(500, "Internal Server Error")

(***************************************************************************)
(* State                                                                   *)
(***************************************************************************)
VARIABLES
    fn,        \* the function a normalization run applies ("" before the call)
    arg,       \* its argument
    ret,       \* what it returned (None before the call)
    src,       \* how the argument was written: the date it spells, if any
    request,        \* the upload: pipeline, declared content type, max_pages
    pc,             \* "received", "render", "model" or "done"
    len_doc,        \* the pages of the PDF the renderer opened (-1 before)
    image_urls,     \* the data URLs of the controller
    content,        \* the message content the model was called with
    reply,          \* what the model call came to
    raised,         \* the exception that ended the request, if any
    response,       \* the HTTP response
    renderer_calls, \* the calls of pdf_to_data_urls
    model_calls,    \* the requests client.chat.completions.create sent
    stages          \* the stages the request went through, in order

callVars == <<fn, arg, ret, src>>

requestVars ==
    <<request, pc, len_doc, image_urls, content, reply, raised, response,
      renderer_calls, model_calls, stages>>

vars == <<fn, arg, ret, src, request, pc, len_doc, image_urls, content, reply,
          raised, response, renderer_calls, model_calls, stages>>

\* An argument that is not composed from the parts of a date.
Plain == [form |-> "plain", d |-> "", mn |-> "", y |-> ""]

\* A model call that has not returned.
NoReply ==
    [kind |-> "none", cls |-> "", msg |-> "", content |-> None, rec |-> None,
     field |-> "", value |-> None, note |-> ""]

NoException == [cls |-> "", msg |-> ""]

\* No request is under way (the runs of single functions).
NoRequest ==
    /\ request = [pipeline |-> "", content_type |-> None, max_pages |-> None]
    /\ pc = "idle" /\ len_doc = -1 /\ image_urls = <<>> /\ content = <<>>
    /\ reply = NoReply /\ raised = NoException /\ response = NoResponse
    /\ renderer_calls = 0 /\ model_calls = 0 /\ stages = <<>>

\* No function run is under way (the requests).
NoCall == fn = "" /\ arg = None /\ ret = None /\ src = Plain

MaxAmountLen == 4
AmountAlphabet == {"1", "9", ".", ",", " ", "S", "/"}

RECURSIVE Texts(_, _)
Texts(alphabet, n) ==
    IF n = 0 THEN {""}
    ELSE LET shorter == Texts(alphabet, n - 1)
         IN  shorter \cup {s \o c : s \in shorter, c \in alphabet}

AmountSamples ==
    {"1.234,56", "1,234.56", "320,00", "123.45", "abc", "S/. 320,00 soles",
     "s/ 37.20", "S/.8.90", "1,234,567.00", "nan", "inf", "-5", "1.1.1"}

AmountInputs ==
    {None} \cup {Str(s) : s \in Texts(AmountAlphabet, MaxAmountLen) \cup AmountSamples}

InitAmount ==
    /\ fn = "" /\ arg \in AmountInputs /\ ret = None /\ src = Plain
    /\ NoRequest

Call_norm_amount ==
    fn = "" /\ fn' = "norm_amount" /\ ret' = norm_amount(arg) /\ UNCHANGED <<arg, src>> /\ UNCHANGED requestVars

Call__norm_amount ==
    fn = "" /\ fn' = "_norm_amount" /\ ret' = _norm_amount(arg) /\ UNCHANGED <<arg, src>> /\ UNCHANGED requestVars

Call__to_float_2 ==
    fn = "" /\ fn' = "_to_float_2" /\ ret' = _to_float_2(arg) /\ UNCHANGED <<arg, src>> /\ UNCHANGED requestVars

NextAmount == Call_norm_amount \/ Call__norm_amount \/ Call__to_float_2

SpecAmount == InitAmount /\ [][NextAmount]_vars

(***************************************************************************)
(* Claims about amount normalization (checked under SpecAmount)            *)
(***************************************************************************)
\* A canonical amount: an optional minus sign, one or more digits, a period
\* and exactly two digits.
IsCanonicalAmount(s) ==
    LET body == IF s # "" /\ Head(s) = "-" THEN Tail(s) ELSE s
        n    == Len(body)
    IN  /\ n >= 4
        /\ Char(body, n - 2) = "."
        /\ AllDigits(Slice(body, 1, n - 3))
        /\ AllDigits(Slice(body, n - 1, n))

TextNormalizers == {"norm_amount", "_norm_amount"}

\* C3: the string-returning amount normalizers give "1234.56" for both
\* "1.234,56" (European style) and "1,234.56" (US style), and "320.00" for
\* "320,00".
C3_BothStylesGive1234_56 ==
    fn \in TextNormalizers =>
        /\ (arg = Str("1.234,56") => ret = Str("1234.56"))
        /\ (arg = Str("1,234.56") => ret = Str("1234.56"))
        /\ (arg = Str("320,00")   => ret = Str("320.00"))

\* C7: amount normalization never raises and returns a canonical two-decimal
\* string or null ("abc" gives null); the cancellation-notice variant returns
\* a number for every input, 0.0 for null, empty or unparseable input.
C7_AmountCanonicalOrNull ==
    /\ fn \in TextNormalizers =>
           /\ ret = None \/ (ret.t = "str" /\ IsCanonicalAmount(ret.s))
           /\ (arg = Str("abc") => ret = None)
    /\ fn = "_to_float_2" =>
           /\ ret.t = "float"
           /\ (arg \in {None, Str(""), Str("abc")} => ret = Float2(0))

(***************************************************************************)
(* Date normalization runs                                                 *)
(***************************************************************************)
\* What surrounds the date in the text: nothing, or a place and a full stop.
DateContexts == {<<"", "">>, <<"Lima, ", ".">>}
DayTexts     == {"1", "04", "24", "29", "31", "0"}
MonthTexts   == {"2", "02", "10", "13"}
YearTexts    == {"25", "49", "50", "99", "2025", "2024", "1950", "0999", "0000"}
SeparatorPairs ==
    {<<"/", "/">>, <<"-", "-">>, <<".", ".">>, <<" ", " ">>, <<"/", "-">>}

MonthNames ==
    DOMAIN _MONTHS \cup {"Octubre", "OCTUBRE", "Setiembre", "Febrero", "foo"}
LongYearTexts == {"2025", "2024", "0999", "0000"}
\* The blanks around the first "de" and its spelling.
DeTexts == {<<" ", "de">>, <<"  ", "DE">>}

NumericDates ==
    {[text |-> c[1] \o d \o sp[1] \o m \o sp[2] \o y \o c[2],
      src  |-> [form |-> "numeric", d |-> d, mn |-> m, y |-> y]] :
        c \in DateContexts, d \in DayTexts, sp \in SeparatorPairs,
        m \in MonthTexts, y \in YearTexts}

LongDates ==
    {[text |-> c[1] \o d \o de[1] \o de[2] \o de[1] \o m \o " de " \o y \o c[2],
      src  |-> [form |-> "long", d |-> d, mn |-> m, y |-> y]] :
        c \in DateContexts, d \in DayTexts \ {"04"}, de \in DeTexts,
        m \in MonthNames, y \in LongYearTexts}

\* Texts in which neither pattern occurs.
NoDateTexts ==
    {"abc", "24/10", "24/10/2", "24 de octubre", "octubre de 2025",
     "24 de octubre de 25", "24de octubre de 2025", "2025", "24|10|2025"}

DateInputs ==
    NumericDates \cup LongDates
    \cup {[text |-> x, src |-> Plain] : x \in NoDateTexts}

InitDate ==
    /\ NoRequest
    /\ fn = "" /\ ret = None
    /\ \/ \E i \in DateInputs : arg = Str(i.text) /\ src = i.src
       \/ arg \in {None, Str("")} /\ src = Plain

Call_norm_date_ddmmyyyy ==
    /\ fn = ""
    /\ fn' = "norm_date_ddmmyyyy"
    /\ \E yearPad \in BOOLEAN : ret' = norm_date_ddmmyyyy(arg, yearPad)
    /\ UNCHANGED <<arg, src>> /\ UNCHANGED requestVars

Call__norm_date_ddmmyyyy ==
    /\ fn = ""
    /\ fn' = "_norm_date_ddmmyyyy"
    /\ \E yearPad \in BOOLEAN : ret' = _norm_date_ddmmyyyy(arg, yearPad)
    /\ UNCHANGED <<arg, src>> /\ UNCHANGED requestVars

NextDate == Call_norm_date_ddmmyyyy \/ Call__norm_date_ddmmyyyy

SpecDate == InitDate /\ [][NextDate]_vars

(***************************************************************************)
(* Claims about date normalization (checked under SpecDate)                *)
(***************************************************************************)
DateNormalizers == {"norm_date_ddmmyyyy", "_norm_date_ddmmyyyy"}

\* The day, month and year an argument spells: the month by number or by
\* Spanish name (0 for a word that is no month), a two-digit year in
\* 1950..2049.
SpelledDay   == int(src.d)
SpelledMonth ==
    IF src.form = "numeric" THEN int(src.mn)
    ELSE IF lower(src.mn) \in DOMAIN _MONTHS THEN _MONTHS[lower(src.mn)] ELSE 0
SpelledYear  ==
    IF Len(src.y) = 2
    THEN (IF int(src.y) >= 50 THEN 1900 + int(src.y) ELSE 2000 + int(src.y))
    ELSE int(src.y)

\* dd/mm/yyyy: two digits, a slash, two digits, a slash, four digits.
FourDigits(y) == Slice("0000", 1, 4 - Len(str(y))) \o str(y)
DDMMYYYY(d, m, y) == Pad2(d) \o "/" \o Pad2(m) \o "/" \o FourDigits(y)

\* C5: an argument holding a long-form or numeric date is mapped to the
\* zero-padded dd/mm/yyyy of that date (two-digit years expanded to 19yy from
\* 50 on, 20yy below); null comes back, and nothing is raised, when no pattern
\* matches or the values are no calendar date.
C5_DateToDDMMYYYY ==
    fn \in DateNormalizers =>
        IF src.form # "plain" /\ ValidDate(SpelledYear, SpelledMonth, SpelledDay)
        THEN ret = Str(DDMMYYYY(SpelledDay, SpelledMonth, SpelledYear))
        ELSE ret = None

\* The same statement for years from 1000 on.
C5_From1000 ==
    (fn \in DateNormalizers /\ ~(src.form # "plain" /\ SpelledYear < 1000)) =>
        IF src.form # "plain" /\ ValidDate(SpelledYear, SpelledMonth, SpelledDay)
        THEN ret = Str(DDMMYYYY(SpelledDay, SpelledMonth, SpelledYear))
        ELSE ret = None

(***************************************************************************)
(* JSON repair runs                                                        *)
(***************************************************************************)
MaxJunkLen == 2
JunkAlphabet == {"x", "{", "}"}

\* What the model may write around its JSON.
JunkTexts ==
    Texts(JunkAlphabet, MaxJunkLen)
    \cup {"leading junk ", " trailing junk", " ", "\n"}

\* JSON objects as the model writes them, each with the mapping it denotes.
ObjectTexts ==
    {[text |-> "{\"a\":1}",             val |-> Obj("a" :> Num(1))],
     [text |-> "{}",                    val |-> Obj(EmptyDict)],
     [text |-> "{ \"a\" : 1 ,\"b\":\"x y\"}",
                                        val |-> Obj("a" :> Num(1) @@ "b" :> Str("x y"))],
     [text |-> "{\"a\":{\"b\":null}}",  val |-> Obj("a" :> Obj("b" :> None))],
     [text |-> "{\"a\":[1,true],\"a\":false}",
                                        val |-> Obj("a" :> Bool(FALSE))]}

\* Texts that are no JSON object.
OtherTexts ==
    {"", "abc", "[1]", "1", "null", "\"s\"", "{\"a\":1", "\"a\":1}", "{\"a\" 1}",
     "{\"a\":1,}", "{\"a\":1}{\"b\":2}", "{'a':1}"}

RepairInputs ==
    {[text |-> p \o c.text \o q,
      src  |-> [form |-> "object", val |-> c.val, junk |-> p \o q]] :
        p \in JunkTexts, c \in ObjectTexts, q \in JunkTexts}
    \cup
    {[text |-> p \o c \o q,
      src  |-> [form |-> "other", val |-> None, junk |-> p \o q]] :
        p \in JunkTexts, c \in OtherTexts, q \in JunkTexts}

InitRepair ==
    /\ NoRequest
    /\ fn = "" /\ ret = None
    /\ \E i \in RepairInputs : arg = Str(i.text) /\ src = i.src

Call__repair_json_block ==
    /\ fn = ""
    /\ fn' = "_repair_json_block"
    /\ ret' = _repair_json_block(arg)
    /\ UNCHANGED <<arg, src>> /\ UNCHANGED requestVars

NextRepair == Call__repair_json_block

SpecRepair == InitRepair /\ [][NextRepair]_vars

(***************************************************************************)
(* Claims about JSON repair (checked under SpecRepair)                     *)
(***************************************************************************)
HasBrace(s) == find(s, "{") # 0 \/ find(s, "}") # 0

MaxDocPages == 10

\* The content types an upload declares (None: the part declares none).
ContentTypes ==
    {None, Str(""), Str("text/plain"), Str("application/pdf"),
     Str("Application/PDF"), Str("image/png"), Str("IMAGE/JPEG")}

\* The max_pages of the query string: absent, or around the declared range.
PageQueries ==
    {None} \cup {Num(n) : n \in {max_pages_ge - 1, max_pages_ge,
                                 max_pages_le, max_pages_le + 1}}

\* extract_tachado has no route: whoever calls it passes a str and an int.
DirectMaxPages ==
    {max_pages_ge - 1, max_pages_ge, max_pages_default, max_pages_le,
     max_pages_le + 1}

Requests ==
    {[pipeline |-> p, content_type |-> c, max_pages |-> q] :
        p \in Routed, c \in ContentTypes, q \in PageQueries}
    \cup {[pipeline |-> "tachado", content_type |-> c, max_pages |-> Num(n)] :
        c \in ContentTypes \ {None}, n \in DirectMaxPages}

\* The max_pages the controller is called with.
MaxPages ==
    IF request.max_pages.t = "null" THEN max_pages_default
    ELSE request.max_pages.n

(***************************************************************************)
(* What the model call comes to.  A reply is an exception of the client    *)
(* (class and text) or the content of the first choice; rec is the JSON    *)
(* value the content was written from, field and value the field of data   *)
(* that differs from the base record of the pipeline, and note the kind of *)
(* the reply.                                                              *)
(***************************************************************************)
\* n copies of c.
RECURSIVE Repeat(_, _)
Repeat(c, n) ==
    IF n = 0 THEN ""
    ELSE IF n % 2 = 1 THEN c \o Repeat(c, n - 1)
    ELSE Repeat(c \o c, n \div 2)

Threw(cls, msg) ==
    [kind |-> "raise", cls |-> cls, msg |-> msg, content |-> None,
     rec |-> None, field |-> "", value |-> None, note |-> "raise"]

Said(text, note) ==
    [kind |-> "content", cls |-> "", msg |-> "", content |-> text,
     rec |-> None, field |-> "", value |-> None, note |-> note]

Wrote(before, rec, after, field, value, note) ==
    [kind |-> "content", cls |-> "", msg |-> "",
     content |-> Str(before \o dumps(rec) \o after),
     rec |-> rec, field |-> field, value |-> value, note |-> note]

\* The amount and date fields of each document type (the prompts' rules for
\* "montos" and "fechas").
AmountFields ==
    [p \in Pipelines |->
        CASE p = "anotacion" -> {"montoInscripcion", "montoDevolucion"}
          [] p = "liquidado" -> {"derechosRegistrales", "pagoCuenta",
                                 "diferenciaPorPagar"}
          [] p = "observado" -> {"montoLiquidado"}
          [] OTHER           -> {"derechosPorDevolver"}]

DateFields ==
    [p \in Pipelines |->
        CASE p = "anotacion" -> {"fechaPresentacion", "fechaInscripcion"}
          [] p = "liquidado" -> {"fechaPresentacion", "fechaVencimiento",
                                 "fechaLiquidacion", "ultimoDiaPago"}
          [] p = "observado" -> {"fechaObservacion", "fechaVencimiento"}
          [] OTHER           -> {}]

\* The fields whose value the replies vary.  extract_liquidado treats its
\* thirteen fields alike: one amount and one date stand for them.
VariedFields ==
    [p \in Pipelines |->
        IF p = "liquidado" THEN {"derechosRegistrales", "fechaVencimiento"}
        ELSE AmountFields[p] \cup DateFields[p]]

\* The base record: every field in the form the prompt asks for.
BaseData ==
    [p \in Pipelines |->
        [k \in Fields[p] |->
            IF k \in AmountFields[p] THEN Str("320.00")
            ELSE IF k \in DateFields[p] THEN Str("24/10/2025")
            ELSE Str("x")]]

Record(document_type, data) ==
    Obj([documentType |-> document_type, data |-> data])

BaseRecord == [p \in Pipelines |-> Record(Str(DocumentType[p]), Obj(BaseData[p]))]

AmountValues ==
    {Str("S/ 320,00"), Str("1,234.56"), Str("abc"), Str("nan"), Str(""), None,
     Num(37)}

DateValues ==
    {Str("24 de Octubre de 2025"), Str("24/10/25"), Str("31/02/2025"),
     Str("1.10.0999"), Str("pronto"), None}

PlainValues == {Str(""), None, Num(5)}

FieldReplies(p) ==
    {Wrote("", Record(Str(DocumentType[p]), Obj([BaseData[p] EXCEPT ![k] = v])),
           "", k, v, "amount") :
        k \in VariedFields[p] \cap AmountFields[p], v \in AmountValues}
    \cup
    {Wrote("", Record(Str(DocumentType[p]), Obj([BaseData[p] EXCEPT ![k] = v])),
           "", k, v, "date") :
        k \in VariedFields[p] \cap DateFields[p], v \in DateValues}
    \cup
    {Wrote("", Record(Str(DocumentType[p]), Obj([BaseData[p] EXCEPT ![k] = v])),
           "", k, v, "plain") :
        k \in Fields[p] \cap {"numeroTitulo"}, v \in PlainValues}

\* A field of data left out, data empty, data left out.
OmittingReplies(p) ==
    {Wrote("", Record(Str(DocumentType[p]),
                      Obj([j \in Fields[p] \ {k} |-> BaseData[p][j]])),
           "", k, None, "omitted") : k \in VariedFields[p]}
    \cup {Wrote("", Record(Str(DocumentType[p]), Obj(EmptyDict)), "", "", None,
                "omitted"),
          Wrote("", Obj([documentType |-> Str(DocumentType[p])]), "", "", None,
                "omitted")}

\* A key that is no field, in data and beside it.
AddingReplies(p) ==
    {Wrote("", Record(Str(DocumentType[p]),
                      Obj(("extra" :> Str("x")) @@ BaseData[p])),
           "", "extra", Str("x"), "added"),
     Wrote("", Obj(("extra" :> Str("x")) @@ BaseRecord[p].f), "", "", None,
           "added beside")}

\* documentType left out, another text, no text.
DocumentTypeReplies(p) ==
    {Wrote("", Obj([data |-> Obj(BaseData[p])]), "", "", None, "documentType")}
    \cup {Wrote("", Record(v, Obj(BaseData[p])), "", "", None, "documentType") :
            v \in {Str("otro"), Num(1), None}}

\* data that is no object, and a reply that is no object.
ShapeReplies(p) ==
    {Wrote("", Record(Str(DocumentType[p]), v), "", "", None, "data") :
        v \in {None, Str("x"), Arr(<<>>)}}
    \cup {Wrote("", v, "", "", None, "no object") :
            v \in {Arr(<<Num(1)>>), Num(1), Str("x"), None}}

\* The base record with text around it, and twice.
WrappedReplies(p) ==
    {Wrote(w[1], BaseRecord[p], w[2], "", None, "wrapped") :
        w \in {<<"Claro: ", "">>, <<"", " Fin.">>, <<"Claro: ", " Fin.">>,
               <<"", "">>}}
    \cup {Said(Str(dumps(BaseRecord[p]) \o " " \o dumps(BaseRecord[p])),
               "malformed")}

\* Content that holds no JSON value; empty content; no content.
BrokenReplies ==
    {Said(Str("no hay json"), "malformed"), Said(Str("{"), "malformed"),
     Said(Str("{\"data\":"), "malformed"), Said(Str(""), "empty"),
     Said(None, "empty")}

\* The exceptions of the client, the text of one as long as the handlers'
\* slice and of one a character longer.
ClientErrors ==
    {Threw("APIConnectionError", "Connection error."),
     Threw("APIStatusError", Repeat("x", TruncLen)),
     Threw("APIStatusError", Repeat("x", TruncLen + 1))}

Replies ==
    [p \in Pipelines |->
        FieldReplies(p) \cup OmittingReplies(p) \cup AddingReplies(p)
        \cup DocumentTypeReplies(p) \cup ShapeReplies(p) \cup WrappedReplies(p)
        \cup BrokenReplies \cup ClientErrors]

(***************************************************************************)
(* The try blocks of the controllers, from the model call's outcome        *)
(***************************************************************************)
\* The one element of a singleton: each step of a try block is applied to
\* the value of the step before it.
Only(S) == CHOOSE x \in S : TRUE

anotacion_try(r, yearPad) ==
    IF r.kind = "raise" THEN Failure(r.cls, r.msg)
    ELSE Only({anotacion_normalized(validated, yearPad) :
                 validated \in {AnotacionOut(raw_data) :
                     raw_data \in {_repair_json_block(json_text) :
                         json_text \in {content_or_braces(r.content)}}}})

observado_try(r, yearPad) ==
    IF r.kind = "raise" THEN Failure(r.cls, r.msg)
    ELSE Only({observado_normalized(validated, yearPad) :
                 validated \in {ObservadoOut(raw_data) :
                     raw_data \in {_repair_json_block(json_text) :
                         json_text \in {content_or_braces(r.content)}}}})

liquidado_try(r) ==
    IF r.kind = "raise" THEN Failure(r.cls, r.msg)
    ELSE Only({liquidado_sanitized(data) : data \in {json_loads(r.content)}})

tachado_try(r) ==
    IF r.kind = "raise" THEN Failure(r.cls, r.msg)
    ELSE Only({tachado_normalized(data) : data \in {json_loads(r.content)}})

\* What the try block of each controller comes to, for every reply.  The
\* block reads the reply and nothing else of the request; yearPad is the
\* C library's choice in strftime.
Outcomes ==
    [p \in Pipelines |->
        CASE p = "anotacion" ->
               {[reply |-> r, result |-> anotacion_try(r, yearPad)] :
                   r \in Replies[p], yearPad \in BOOLEAN}
          [] p = "observado" ->
               {[reply |-> r, result |-> observado_try(r, yearPad)] :
                   r \in Replies[p], yearPad \in BOOLEAN}
          [] p = "liquidado" ->
               {[reply |-> r, result |-> liquidado_try(r)] : r \in Replies[p]}
          [] OTHER ->
               {[reply |-> r, result |-> tachado_try(r)] : r \in Replies[p]}]

(***************************************************************************)
(* The request: route, controller, renderer, model call, response          *)
(***************************************************************************)
Init ==
    /\ NoCall
    /\ request \in Requests
    /\ pc = "received" /\ len_doc = -1 /\ image_urls = <<>> /\ content = <<>>
    /\ reply = NoReply /\ raised = NoException /\ response = NoResponse
    /\ renderer_calls = 0 /\ model_calls = 0 /\ stages = <<>>

\* The request ends with response r.
Respond(r) ==
    /\ response' = r
    /\ pc' = "done"
    /\ stages' = Append(stages, "respond")

\* The controller calls client.chat.completions.create with the message
\* built from its prompt and the images.
CallModel(urls) ==
    /\ image_urls' = urls
    /\ content' = build_message_content(SYSTEM_PROMPT[request.pipeline], urls)
    /\ model_calls' = model_calls + 1
    /\ pc' = "model"
    /\ stages' = Append(stages, "model")
    /\ UNCHANGED <<reply, raised, response>>

\* A controller up to its first external call: the content type is checked;
\* a PDF goes to the renderer, an image to the model as it is.
Controller ==
    IF ~(is_pdf(request.content_type) \/ is_img(request.content_type))
    THEN /\ Respond(HTTPException(400, "Sube una imagen (jpg/png) o un PDF."))
         /\ UNCHANGED <<len_doc, image_urls, content, reply, raised,
                        renderer_calls, model_calls>>
    ELSE IF is_pdf(request.content_type)
    THEN /\ pc' = "render"
         /\ renderer_calls' = renderer_calls + 1
         /\ stages' = Append(stages, "render")
         /\ UNCHANGED <<len_doc, image_urls, content, reply, raised, response,
                        model_calls>>
    ELSE /\ CallModel(<<bytes_to_data_url("file_content",
                           IF Truthy(request.content_type)
                           THEN request.content_type.s ELSE "image/png")>>)
         /\ UNCHANGED <<len_doc, renderer_calls>>

\* A route: FastAPI validates max_pages, the handler refuses an upload
\* without a content type, and the controller is called.
Route(p) ==
    /\ pc = "received" /\ request.pipeline = p
    /\ UNCHANGED <<request, callVars>>
    /\ IF /\ request.max_pages.t # "null"
          /\ (request.max_pages.n < max_pages_ge \/ request.max_pages.n > max_pages_le)
       THEN /\ Respond(RequestValidationError(request.max_pages.n))
            /\ UNCHANGED <<len_doc, image_urls, content, reply, raised,
                           renderer_calls, model_calls>>
       ELSE IF ~Truthy(request.content_type)
       THEN /\ Respond(HTTPException(400,
                    "No se pudo detectar el content-type del archivo."))
            /\ UNCHANGED <<len_doc, image_urls, content, reply, raised,
                           renderer_calls, model_calls>>
       ELSE Controller

extract_liquidado_route == Route("liquidado")
extract_anotacion_route == Route("anotacion")
extract_observado_route == Route("observado")

\* extract_tachado called as it is declared.
extract_tachado ==
    /\ pc = "received" /\ request.pipeline = "tachado"
    /\ UNCHANGED <<request, callVars>>
    /\ Controller

\* pdf_to_data_urls returns: the document has n pages.  Without an image the
\* controller gives up; otherwise it calls the model.
pdf_to_data_urls_returns ==
    /\ pc = "render"
    /\ UNCHANGED <<request, callVars, renderer_calls>>
    /\ \E n \in 0..MaxDocPages :
        /\ len_doc' = n
        /\ IF pdf_to_data_urls(n, MaxPages) = <<>>
           THEN /\ Respond(HTTPException(500,
                        "No se pudieron renderizar páginas del PDF."))
                /\ UNCHANGED <<image_urls, content, reply, raised, model_calls>>
           ELSE CallModel(pdf_to_data_urls(n, MaxPages))

\* pdf_to_data_urls raises (PyMuPDF is missing, the bytes are no PDF): the
\* call is outside the try block and no handler of the application catches
\* the exception.
pdf_to_data_urls_raises ==
    /\ pc = "render"
    /\ UNCHANGED <<request, callVars, renderer_calls, len_doc, image_urls,
                   content, reply, model_calls>>
    /\ \E e \in {[cls |-> "RuntimeError",
                  msg |-> "PyMuPDF (fitz) no está instalado. Agrega 'PyMuPDF' a requirements.txt e instala."],
                 [cls |-> "FileDataError", msg |-> "Failed to open stream"]} :
        /\ raised' = e
        /\ Respond(InternalServerError)

\* The try block ends: the model call came to r, the block to result, and
\* the handler answers.
Finish(r, result, answer) ==
    /\ reply' = r
    /\ raised' = [cls |-> result.cls, msg |-> result.msg]
    /\ response' = answer
    /\ pc' = "done"
    /\ stages' = stages \o (IF result.failed THEN <<"respond">>
                            ELSE <<"normalize", "respond">>)
    /\ UNCHANGED <<request, callVars, len_doc, image_urls, content,
                   renderer_calls, model_calls>>

FinishLabelled(p, r, result) == Finish(r, result, labelled_handler(p, result))
FinishBare(r, result) == Finish(r, result, bare_handler(result))

\* Inside client.chat.completions.create: the request failed in a way the
\* client retries, and it is sent to the model once more.
client_retries ==
    /\ pc = "model" /\ model_calls <= max_retries
    /\ model_calls' = model_calls + 1
    /\ stages' = Append(stages, "model")
    /\ UNCHANGED <<request, callVars, pc, len_doc, image_urls, content, reply,
                   raised, response, renderer_calls>>

extract_anotacion_try ==
    /\ pc = "model" /\ request.pipeline = "anotacion"
    /\ \E o \in Outcomes["anotacion"] :
        FinishLabelled("anotacion", o.reply, o.result)

extract_observado_try ==
    /\ pc = "model" /\ request.pipeline = "observado"
    /\ \E o \in Outcomes["observado"] :
        FinishLabelled("observado", o.reply, o.result)

extract_liquidado_try ==
    /\ pc = "model" /\ request.pipeline = "liquidado"
    /\ \E o \in Outcomes["liquidado"] : FinishBare(o.reply, o.result)

extract_tachado_try ==
    /\ pc = "model" /\ request.pipeline = "tachado"
    /\ \E o \in Outcomes["tachado"] : FinishBare(o.reply, o.result)

Next ==
    \/ extract_liquidado_route
    \/ extract_anotacion_route
    \/ extract_observado_route
    \/ extract_tachado
    \/ pdf_to_data_urls_returns
    \/ pdf_to_data_urls_raises
    \/ client_retries
    \/ extract_anotacion_try
    \/ extract_observado_try
    \/ extract_liquidado_try
    \/ extract_tachado_try

Spec == Init /\ [][Next]_vars

(***************************************************************************)
(* Claims about the requests (checked under Spec)                          *)
(***************************************************************************)
DeclaredType == request.content_type

\* The upload declares a PDF or an image, letter case aside.
DeclaresPdf == Truthy(DeclaredType) /\ lower(DeclaredType.s) = "application/pdf"
DeclaresImage == Truthy(DeclaredType) /\ startswith(lower(DeclaredType.s), "image/")

\* The upload declares a PDF or an image in exactly these letters.
DeclaresPdfAsWritten == Truthy(DeclaredType) /\ DeclaredType.s = "application/pdf"
DeclaresImageAsWritten == Truthy(DeclaredType) /\ startswith(DeclaredType.s, "image/")

\* The route refuses the max_pages of the query string.
QueryRefused ==
    /\ request.pipeline \in Routed
    /\ request.max_pages.t # "null"
    /\ (request.max_pages.n < max_pages_ge \/ request.max_pages.n > max_pages_le)

NoExternalCall == renderer_calls = 0 /\ model_calls = 0

\* C1 as stated: an upload whose content type is missing, or is neither
\* exactly application/pdf nor starts with image/, ends with HTTP 400, and
\* neither the renderer nor the model is ever called for it.
C1_RejectedAsWritten ==
    ~(DeclaresPdfAsWritten \/ DeclaresImageAsWritten) =>
        /\ NoExternalCall
        /\ pc = "done" => response.status = 400

\* C1 amended: an upload whose content type is missing, or, letter case
\* aside, is neither application/pdf nor starts with image/, ends with HTTP
\* 400 (HTTP 422 when its route refuses max_pages, which comes first), and
\* neither the renderer nor the model is ever called for it.
C1_RejectedIgnoringCase ==
    ~(DeclaresPdf \/ DeclaresImage) =>
        /\ NoExternalCall
        /\ pc = "done" => response.status = IF QueryRefused THEN 422 ELSE 400

\* C1 witness: a text/plain upload was answered 400 with no external call.
C1_Witness ==
    /\ pc = "done"
    /\ DeclaredType = Str("text/plain")
    /\ response.status = 400
    /\ NoExternalCall

\* The data URL of page i (from 0) of the PDF.
PageUrl(i) == [mime |-> "image/png", raw |-> "page " \o str(i)]

\* C2: the model call of a PDF upload with len_doc pages carries the prompt
\* text as its one text element, first, followed by the images of the first
\* min(len_doc, max_pages) pages in page order and nothing else (3 images
\* for 10 pages and max_pages 3).
C2_FirstPagesForwarded ==
    (DeclaresPdf /\ model_calls > 0) =>
        /\ Len(content) = 1 + Min(len_doc, MaxPages)
        /\ content[1] = [type |-> "text", text |-> SYSTEM_PROMPT[request.pipeline]]
        /\ \A i \in 1..Min(len_doc, MaxPages) :
              content[i + 1] = [type |-> "image_url",
                                image_url |-> [url |-> PageUrl(i - 1)]]
        /\ (len_doc = 10 /\ MaxPages = 3) => Len(content) = 1 + 3

\* C2 witness: a PDF of 10 pages under the default max_pages of 3 went to
\* the model with 3 images.
C2_Witness ==
    /\ DeclaresPdf /\ model_calls = 1
    /\ len_doc = 10 /\ request.max_pages = None
    /\ Len(image_urls) = 3 /\ Len(content) = 4

\* The data object of a 200 response.
ResponseData == response.body.f["data"].f

\* dd/mm/yyyy: digits with a slash in the third and the sixth place.
IsDDMMYYYY(s) ==
    /\ Len(s) = 10
    /\ Char(s, 3) = "/" /\ Char(s, 6) = "/"
    /\ AllDigits(Slice(s, 1, 2)) /\ AllDigits(Slice(s, 4, 5))
    /\ AllDigits(Slice(s, 7, 10))

\* C4: in a 200 response every amount field is null or a two-decimal amount
\* (a number, for the cancellation notice) and every date field is null or
\* a dd/mm/yyyy date.
C4_CanonicalFields ==
    (pc = "done" /\ response.status = 200) =>
        \A k \in DOMAIN ResponseData :
            /\ k \in AmountFields[request.pipeline] =>
                  \/ ResponseData[k].t \in {"null", "float"}
                  \/ ResponseData[k].t = "str" /\ IsCanonicalAmount(ResponseData[k].s)
            /\ k \in DateFields[request.pipeline] =>
                  \/ ResponseData[k].t = "null"
                  \/ ResponseData[k].t = "str" /\ IsDDMMYYYY(ResponseData[k].s)

\* The model wrote a record that fits the schema, one amount or date field
\* holding a text that spells no amount, or no date.
WroteUnnormalizable ==
    \/ reply.note = "amount" /\ reply.value \in {Str("abc")}
    \/ reply.note = "date" /\ reply.value \in {Str("31/02/2025"), Str("pronto")}

\* C8: when the model wrote such a record the request is answered 200, that
\* field is null (0.0 for the amount of the cancellation notice) and every
\* other field is as the model wrote it.
C8_OnlyThatFieldDegraded ==
    (pc = "done" /\ WroteUnnormalizable) =>
        /\ response.status = 200
        /\ ResponseData[reply.field] =
              IF request.pipeline = "tachado" THEN Float2(0) ELSE None
        /\ \A k \in Fields[request.pipeline] \ {reply.field} :
              ResponseData[k] = BaseData[request.pipeline][k]

\* The request failed after its content type was accepted: the renderer
\* raised or gave no page, or the try block ended with an exception.
FailedAfterAccepted ==
    /\ pc = "done" /\ ~QueryRefused /\ (DeclaresPdf \/ DeclaresImage)
    /\ \/ raised # NoException
       \/ (DeclaresPdf /\ model_calls = 0)

\* C9: a request that failed after its content type was accepted is answered
\* 500 with a message that names the stage that failed and carries at most
\* the first TruncLen characters of the exception's text.
C9_FailureNamesStage ==
    FailedAfterAccepted =>
        /\ response.status = 500
        /\ \/ response.detail = "No se pudieron renderizar páginas del PDF."
           \/ \E p \in DOMAIN Labels :
                 /\ startswith(response.detail, Labels[p])
                 /\ Len(response.detail) <=
                        Len(Labels[p]) + Len(raised.cls) + 2 + TruncLen

\* The model left field k out of the data object it wrote.
Omitted(k) ==
    /\ reply.rec.t = "obj"
    /\ \/ "data" \notin DOMAIN reply.rec.f
       \/ /\ reply.rec.f["data"].t = "obj"
          /\ k \notin DOMAIN reply.rec.f["data"].f

\* C10: the keys of data in a 200 response are the fields of the document
\* type and no other, and a field the model left out is null.
C10_ExactlyTheFields ==
    (pc = "done" /\ response.status = 200) =>
        /\ DOMAIN ResponseData = Fields[request.pipeline]
        /\ \A k \in Fields[request.pipeline] :
              Omitted(k) => ResponseData[k] = None

\* The max_pages of the query string is absent, or lies outside 1..10.
QueryAbsent == request.max_pages.t = "null"
QueryOutside == ~QueryAbsent /\ request.max_pages.n \notin 1..10

\* A page bound brought into 1..10.
Clamped(n) == IF n < 1 THEN 1 ELSE IF n > 10 THEN 10 ELSE n

\* The page bound of the request when it is read as clamped.
ClampedQuery == IF QueryAbsent THEN 3 ELSE Clamped(request.max_pages.n)

\* C11 as stated: on a route, an absent max_pages counts as 3 and one
\* outside 1..10 as the nearest of 1 and 10, so a PDF upload is rendered
\* whatever max_pages it carries and the model gets the first
\* min(len_doc, bound) pages.
C11_ClampedAndProcessed ==
    (request.pipeline \in Routed /\ DeclaresPdf) =>
        /\ pc = "done" => renderer_calls > 0
        /\ model_calls > 0 => Len(image_urls) = Min(len_doc, ClampedQuery)

\* C11 amended: on a route, an absent max_pages counts as 3; one outside
\* 1..10 is refused with HTTP 422 before the renderer or the model is
\* called; so the renderer is only ever asked for 1 to 10 pages.
C11_DefaultOrRefused ==
    request.pipeline \in Routed =>
        /\ QueryOutside =>
              /\ NoExternalCall
              /\ pc = "done" => response.status = 422
        /\ renderer_calls > 0 => ~QueryOutside
        /\ (renderer_calls > 0 /\ model_calls > 0) =>
              /\ QueryAbsent => Len(image_urls) = Min(len_doc, 3)
              /\ ~QueryAbsent =>
                    Len(image_urls) = Min(len_doc, request.max_pages.n)
              /\ Len(image_urls) \in 1..10

\* C11 witness: the inscrito route refused a PDF upload with max_pages 11.
C11_Witness ==
    /\ pc = "done" /\ request.pipeline = "anotacion" /\ DeclaresPdf
    /\ request.max_pages = Num(11)
    /\ response.status = 422 /\ NoExternalCall

\* The POST endpoints of the route group that dispatch to pipeline p.
Endpoints(p) == {path \in DOMAIN router : router[path] = p}

\* C12: the pipeline of every request under way has its own POST endpoint
\* in the route group, one that dispatches to it: none of the four
\* pipelines is out of reach of HTTP.
C12_EveryPipelineHasEndpoint ==
    pc # "received" => Cardinality(Endpoints(request.pipeline)) = 1

\* The stages of a request, in the order of the data flow.
StageOrder == <<"render", "model", "normalize", "respond">>
StageIndex(st) == CHOOSE i \in DOMAIN StageOrder : StageOrder[i] = st

\* C13: the stages a request has gone through are in the order render,
\* model call, normalize, respond, none of them twice; the renderer and the
\* model are each called at most once; a request that failed has not gone on
\* to normalize; and a finished request has exactly one response, its last
\* stage, an unfinished one none.
C13_OnePassInOrder ==
    /\ renderer_calls <= 1 /\ model_calls <= 1
    /\ \A i, j \in DOMAIN stages :
          i < j => StageIndex(stages[i]) < StageIndex(stages[j])
    /\ pc # "done" => response = NoResponse
    /\ pc = "done" =>
          /\ response # NoResponse
          /\ stages[Len(stages)] = "respond"
          /\ response.status # 200 => \A i \in DOMAIN stages : stages[i] # "normalize"

\* C14: in every pipeline a reply that is a valid JSON object with text
\* before it, after it or both goes through the repair first: nothing is
\* raised for it and the request is answered 200.
C14_WrappedObjectRecovered ==
    (pc = "done" /\ reply.note = "wrapped") =>
        /\ raised = NoException
        /\ response.status = 200

\* C15: the documentType of a 200 response is the constant of the pipeline
\* that answered, whatever documentType the model wrote.
C15_DocumentTypeConstant ==
    (pc = "done" /\ response.status = 200) =>
        response.body.f["documentType"] = Str(DocumentType[request.pipeline])

(***************************************************************************)
(* A further claim about JSON repair (checked under SpecRepair)            *)
(***************************************************************************)
\* C16: whatever the text, JSON repair returns a mapping or raises; it never
\* returns a list, a number, a string, a boolean or null.
C16_RepairGivesMapping ==
    fn = "_repair_json_block" => ret.t \in {"obj", "raise"}

=============================================================================
